---- MODULE Spec2Model ----
(***************************************************************************)
(* Model of src/src/utils/web-search.js: the search resolver (searchWeb),  *)
(* its two provider adapters and extractors, the multi-query resolver      *)
(* (searchWebMultiple) and the enrichment stage (searchAndFetch).          *)
(*                                                                         *)
(* Every `await` of the source is a suspension point: an action of the     *)
(* model is the code that runs between two suspension points of one async  *)
(* call, and the network's answer is the action's input.                   *)
(*                                                                         *)
(* Strings are modelled by what the code does to them:                     *)
(*   - a text is [core, len] (which text it is a prefix of, and its        *)
(*     length), raw markup text also carries pad (surrounding whitespace); *)
(*   - a URL is a sequence of tokens, so that includes(), startsWith() and *)
(*     split() are computed on it.                                         *)
(* The timestamp field of the envelopes (new Date().toISOString()) is not  *)
(* modelled.                                                               *)
(***************************************************************************)
EXTENDS Integers, Sequences, FiniteSets, TLC

(***************************************************************************)
(* Bounds of the model.                                                    *)
(***************************************************************************)
MaxQueries == 2
MaxLimit == 2

(***************************************************************************)
(* Program constants.                                                      *)
(***************************************************************************)
CitationSnippetMax == 200
SnippetMax == 300
PageTextMax == 10000
ContentMax == 5000

Min(a, b) == IF a <= b THEN a ELSE b

(***************************************************************************)
(* Texts.                                                                  *)
(***************************************************************************)
EmptyStr == [core |-> "", len |-> 0]

\* String.prototype.trim on a raw text: the surrounding whitespace goes.
Trim(raw) == IF raw.len = 0 THEN EmptyStr ELSE [core |-> raw.core, len |-> raw.len]

\* String.prototype.substring(0, n)
Substring(s, n) ==
    IF n = 0 \/ s.len = 0 THEN EmptyStr
    ELSE [core |-> s.core, len |-> Min(s.len, n)]

\* a JavaScript string is falsy iff it is empty
Truthy(s) == s.len > 0

\* the template literal `Result ${n}`
ResultTitle(n) == [core |-> "Result " \o ToString(n), len |-> 7 + Len(ToString(n))]

(***************************************************************************)
(* URLs as token sequences.                                                *)
(***************************************************************************)
Includes(url, tok) == \E k \in 1..Len(url) : url[k] = tok

\* url.startsWith('http')
StartsWithHttp(url) == Len(url) > 0 /\ url[1] \in {"http://", "https://"}

RECURSIVE IndexOfFrom(_, _, _)
IndexOfFrom(url, tok, k) ==
    IF k > Len(url) THEN 0
    ELSE IF url[k] = tok THEN k
    ELSE IndexOfFrom(url, tok, k + 1)

\* url.split(tok)[0]
SplitFirst(url, tok) ==
    LET k == IndexOfFrom(url, tok, 1)
    IN  IF k = 0 THEN url ELSE SubSeq(url, 1, k - 1)

\* mutant of CleanUrl: only the query string is cut off
CleanUrlAtQuery(url) == SplitFirst(url, "?")

\* link.url.split('&')[0].split('?')[0]
CleanUrl(url) == SplitFirst(SplitFirst(url, "&"), "?")

(***************************************************************************)
(* parsePerplexityResults: content is the sequence of citation spans the   *)
(* citationRegex matches, each with the text before its first URL, that    *)
(* URL (<<>> when the span holds none) and the text after it.              *)
(***************************************************************************)
\* mutant of HasUrl: a span without URL is turned into a result too
HasUrlOrNot(span) == TRUE

\* if (urlMatch && urlMatch[0]) (line 149)
HasUrl(span) == span.url # <<>>

\* the result pushed at lines 150-159
CitationResult(span, rank) ==
    LET titleMatch == Trim(span.before)
        snippetMatch == Trim(span.after)
    IN  [title   |-> IF Truthy(titleMatch) THEN titleMatch ELSE ResultTitle(rank),
         url     |-> span.url,
         snippet |-> Substring(snippetMatch, CitationSnippetMax),
         rank    |-> rank]

RECURSIVE PerplexityLoop(_, _, _, _, _)
PerplexityLoop(content, k, results, rank, limit) ==
    IF k > Len(content) \/ ~(Len(results) < limit) THEN results
    ELSE IF HasUrl(content[k])
         THEN PerplexityLoop(content, k + 1,
                             Append(results, CitationResult(content[k], rank)),
                             rank + 1, limit)
         ELSE PerplexityLoop(content, k + 1, results, rank, limit)

parsePerplexityResults(content, limit) == PerplexityLoop(content, 1, <<>>, 1, limit)

(***************************************************************************)
(* parseDuckDuckGoResults: html is the sequence of anchor elements of the  *)
(* document, each [cls, href, text].                                       *)
(***************************************************************************)
\* modernRegex: an anchor whose class holds result__a
ModernMatch(a) == a.cls = "result__a"

\* snippetRegex: an anchor whose class holds result__snippet
SnippetMatch(a) == a.cls = "result__snippet"

\* genericLinkRegex: href="(https?:\/\/[^"]+)" and a non-empty text ([^<]+)
GenericMatch(a) ==
    /\ StartsWithHttp(a.href)
    /\ Len(a.href) > 1
    /\ (a.text.len > 0 \/ a.text.pad)

\* mutant of ModernAccept: internal DuckDuckGo URLs are not skipped
ModernAcceptAnyHost(url) == StartsWithHttp(url)

\* the filter of strategy 1 (line 183)
ModernAccept(url) == ~Includes(url, "duckduckgo.com") /\ StartsWithHttp(url)

\* the filter of strategy 2 (line 201)
GenericAccept(url) == ~Includes(url, "duckduckgo.com") /\ ~Includes(url, "javascript:")

\* match[2].trim().replace(/<[^>]+>/g, ''): the text of a match holds no '<'
LinkOf(a) == [url |-> a.href, title |-> Trim(a.text)]

RECURSIVE ModernLoop(_, _, _, _)
ModernLoop(html, k, links, limit) ==
    IF k > Len(html) THEN links
    ELSE IF ~ModernMatch(html[k]) THEN ModernLoop(html, k + 1, links, limit)
    ELSE IF ~(Len(links) < limit * 2) THEN links
    ELSE ModernLoop(html, k + 1,
                    IF ModernAccept(html[k].href) THEN Append(links, LinkOf(html[k]))
                    ELSE links,
                    limit)

RECURSIVE SnippetLoop(_, _, _, _)
SnippetLoop(html, k, snippets, limit) ==
    IF k > Len(html) THEN snippets
    ELSE IF ~SnippetMatch(html[k]) THEN SnippetLoop(html, k + 1, snippets, limit)
    ELSE IF ~(Len(snippets) < limit * 2) THEN snippets
    ELSE SnippetLoop(html, k + 1, Append(snippets, Trim(html[k].text)), limit)

RECURSIVE GenericLoop(_, _, _, _)
GenericLoop(html, k, links, limit) ==
    IF k > Len(html) THEN links
    ELSE IF ~GenericMatch(html[k]) THEN GenericLoop(html, k + 1, links, limit)
    ELSE IF ~(Len(links) < limit * 2) THEN links
    ELSE GenericLoop(html, k + 1,
                     IF GenericAccept(html[k].href) THEN Append(links, LinkOf(html[k]))
                     ELSE links,
                     limit)

\* snippets[i] || snippets[i - 1] || '' (i is the 1-based position here)
PickSnippet(snippets, i) ==
    IF i <= Len(snippets) /\ Truthy(snippets[i]) THEN snippets[i]
    ELSE IF i - 1 >= 1 /\ i - 1 <= Len(snippets) /\ Truthy(snippets[i - 1])
         THEN snippets[i - 1]
    ELSE EmptyStr

\* mutant of NeedsFallback: the generic strategy tops up a short list of links
NeedsFallbackWhenShort(links, limit) == Len(links) < limit

\* if (links.length === 0) (line 197)
NeedsFallback(links, limit) == Len(links) = 0

\* the links after both strategies (lines 178-208)
CollectLinks(html, limit) ==
    LET modern == ModernLoop(html, 1, <<>>, limit)
    IN  IF NeedsFallback(modern, limit) THEN GenericLoop(html, 1, modern, limit) ELSE modern

\* mutant of CombineLinks: the loop runs over every collected link
CombineAllLinks(links, snippets, limit) ==
    [i \in 1..Len(links) |->
        [title   |-> IF Truthy(links[i].title) THEN links[i].title
                     ELSE ResultTitle(i),
         url     |-> CleanUrl(links[i].url),
         snippet |-> Substring(PickSnippet(snippets, i), SnippetMax),
         rank    |-> i]]

\* the loop of lines 211-224
CombineLinks(links, snippets, limit) ==
    [i \in 1..Min(Len(links), limit) |->
        [title   |-> IF Truthy(links[i].title) THEN links[i].title
                     ELSE ResultTitle(i),
         url     |-> CleanUrl(links[i].url),
         snippet |-> Substring(PickSnippet(snippets, i), SnippetMax),
         rank    |-> i]]

parseDuckDuckGoResults(html, limit) ==
    CombineLinks(CollectLinks(html, limit), SnippetLoop(html, 1, <<>>, limit), limit)

(***************************************************************************)
(* Inputs: queries, network answers.                                       *)
(***************************************************************************)
\* a query holding a lone surrogate: encodeURIComponent throws URIError on it
LoneSurrogate == "<lone surrogate>"
Queries == {"a", "b", LoneSurrogate}
WellFormed(query) == query # LoneSurrogate

RawText(core, len, pad) == [core |-> core, len |-> len, pad |-> pad]
Anchor(cls, href, text) == [cls |-> cls, href |-> href, text |-> text]

LinkExample ==
    Anchor("result__a", <<"https://", "example.com", "?", "q", "&", "t">>,
           RawText("Example Site", 12, TRUE))
LinkUntitled == Anchor("result__a", <<"http://", "other.com">>, RawText("", 0, TRUE))
LinkThird == Anchor("result__a", <<"https://", "third.net", "&", "x">>, RawText("Third", 5, FALSE))
LinkSelf ==
    Anchor("result__a", <<"https://", "duckduckgo.com", "?", "uddg">>, RawText("Self", 4, FALSE))
LinkRelative == Anchor("result__a", <<"/l/", "x">>, RawText("Relative", 8, FALSE))
SnippetLong == Anchor("result__snippet", <<>>, RawText("long snippet", 400, TRUE))
SnippetShort == Anchor("result__snippet", <<>>, RawText("short snippet", 20, FALSE))
SnippetBlank == Anchor("result__snippet", <<>>, RawText("", 0, TRUE))
PlainLink == Anchor("nav", <<"https://", "plain.org", "?", "ref">>, RawText("Plain", 5, FALSE))
PlainScript == Anchor("nav", <<"https://", "javascript:">>, RawText("Script", 6, FALSE))

\* the bodies the markup provider may answer with
HtmlBodies ==
    { <<>>,
      <<LinkSelf, LinkRelative, PlainScript>>,
      <<LinkExample, SnippetLong>>,
      <<LinkSelf, PlainLink, SnippetShort>>,
      <<LinkExample, SnippetBlank, LinkUntitled, SnippetShort, LinkThird, LinkExample>> }

Span(before, url, after) == [before |-> before, url |-> url, after |-> after]
CitationText ==
    << Span(RawText("Example Site", 12, TRUE), <<"https://", "example.com">>,
            RawText("more info", 250, TRUE)),
       Span(RawText("no link here", 12, FALSE), <<>>, RawText("", 0, FALSE)),
       Span(RawText("", 0, TRUE), <<"https://", "duckduckgo.com", "?", "q">>,
            RawText("data", 4, FALSE)),
       Span(RawText("Other", 5, TRUE), <<"https://", "other.com">>, RawText("", 0, FALSE)) >>

\* the JSON bodies the API provider may answer with: data.choices may be
\* missing, empty, or hold a choice with or without message.content
Choice(hasContent, content) == [hasContent |-> hasContent, content |-> content]
ApiBody(hasChoices, choices) == [hasChoices |-> hasChoices, choices |-> choices]
ApiBodies ==
    { ApiBody(FALSE, <<>>),
      ApiBody(TRUE, <<>>),
      ApiBody(TRUE, <<Choice(FALSE, <<>>)>>),
      ApiBody(TRUE, <<Choice(TRUE, <<CitationText[2]>>)>>),
      ApiBody(TRUE, <<Choice(TRUE, CitationText)>>) }

(***************************************************************************)
(* Envelopes, completions and promises.                                    *)
(***************************************************************************)
\* lines 57-63 and 123-129
Envelope(query, results, source) ==
    [query |-> query, results |-> results, total |-> Len(results), source |-> source]

\* mutant of ErrorEnvelope: the failure envelope keeps the provider's name
ErrorEnvelopeKeepsSource(query, message) ==
    [query |-> query, results |-> <<>>, total |-> 0, error |-> message,
     source |-> "duckduckgo"]

\* lines 68-75
ErrorEnvelope(query, message) ==
    [query |-> query, results |-> <<>>, total |-> 0, error |-> message, source |-> "none"]

Returned(value) == [kind |-> "return", value |-> value]
Thrown(message) == [kind |-> "throw", message |-> message]

Pending == [kind |-> "pending"]
Fulfilled(value) == [kind |-> "fulfilled", value |-> value]
Rejected(message) == [kind |-> "rejected", message |-> message]

(***************************************************************************)
(* State.                                                                  *)
(*   op             the exported function the caller invoked               *)
(*   apiKey         process.env.PERPLEXITY_API_KEY: "unset", "empty" (the  *)
(*                  empty string) or "set"                                 *)
(*   queries        the queries of the call (one, but for a batch)         *)
(*   limit          options.limit, or options.fetchCount for searchAndFetch*)
(*   tasks          one record per searchWeb call, see NewTask             *)
(*   top            the promise the exported function returned             *)
(*   outOfOrder     history: a searchWeb call has completed while a call   *)
(*                  made before it was still pending                       *)
(*   fetchPc, fetchIdx, fetchedContent, pageRequests, pageAnswers          *)
(*                  the loop of searchAndFetch: its position, the index of *)
(*                  the result being fetched, its local array, the URLs    *)
(*                  requested so far and how each request ended            *)
(*   extractor      the run of an extractor on its own (SpecExtract): its  *)
(*                  input, its position and its local variables; it stays  *)
(*                  ExtractorIdle while an exported function runs          *)
(***************************************************************************)
VARIABLES op, apiKey, queries, limit, tasks, top, outOfOrder,
          fetchPc, fetchIdx, fetchedContent, pageRequests, pageAnswers,
          extractor

vars == <<op, apiKey, queries, limit, tasks, top, outOfOrder,
          fetchPc, fetchIdx, fetchedContent, pageRequests, pageAnswers,
          extractor>>

ExtractorIdle == [pc |-> "idle"]

Ops == {"searchWeb", "searchWebMultiple", "searchAndFetch"}
ApiKeys == {"unset", "empty", "set"}

\* mutant of KeyTruthy: the check `!== ''`, which lets undefined through
KeyNotEmpty(key) == key # "empty"

\* if (process.env.PERPLEXITY_API_KEY): the empty string is falsy
KeyTruthy(key) == key = "set"

\* a searchWeb call: where it is suspended, its promise, the adapters it has
\* entered and the requests it has issued, in order, and what the network
\* answered to each of the two requests: nothing
\* yet, a failure (for the markup request with the message of the error), or
\* a body
Failed(message) == [status |-> "failed", message |-> message]

NewTask ==
    [pc |-> "idle", ret |-> Pending, attempts |-> <<>>, requests |-> <<>>,
     apiAnswer |-> [status |-> "none"], markupAnswer |-> [status |-> "none"]]

Tasks == 1..Len(queries)

(***************************************************************************)
(* searchWeb and searchWithPerplexity, between their suspension points.    *)
(***************************************************************************)
\* the task returns: its promise is fulfilled
Resolve(t, value) == [t EXCEPT !.pc = "done", !.ret = Fulfilled(value)]

\* mutant of MarkupCatch: the error is thrown on to the caller
MarkupCatchRethrows(t, query, completion) ==
    IF completion.kind = "return" THEN Resolve(t, completion.value)
    ELSE [t EXCEPT !.pc = "done", !.ret = Rejected(completion.message)]

\* the catch of lines 64-76: a completion of the try block of line 36
MarkupCatch(t, query, completion) ==
    IF completion.kind = "return" THEN Resolve(t, completion.value)
    ELSE Resolve(t, ErrorEnvelope(query, completion.message))

\* lines 36-46: build the search URL and issue the request
TryMarkup(t, query) ==
    LET entered == [t EXCEPT !.attempts = Append(@, "markup")]
    IN  IF ~WellFormed(query) THEN MarkupCatch(entered, query, Thrown("URI malformed"))
        ELSE [entered EXCEPT !.pc = "ddg_fetch", !.requests = Append(@, "duckduckgo")]

\* mutant of PerplexityCatch: the result of the API adapter is not returned,
\* the markup adapter runs in any case
PerplexityCatchFallsThrough(t, query, completion) == TryMarkup(t, query)

\* mutant of PerplexityCatch: an API failure ends the search, no fallback
PerplexityCatchNoFallback(t, query, completion) ==
    IF completion.kind = "return" THEN Resolve(t, completion.value)
    ELSE Resolve(t, ErrorEnvelope(query, completion.message))

\* lines 28-33: the completion of `return await searchWithPerplexity(...)`
PerplexityCatch(t, query, completion) ==
    IF completion.kind = "return" THEN Resolve(t, completion.value)
    ELSE TryMarkup(t, query)

\* lines 84-110: searchWithPerplexity up to its fetch
PerplexityEntry(t, query, key) ==
    LET entered == [t EXCEPT !.attempts = Append(@, "api")]
    IN  IF ~KeyTruthy(key)
        THEN PerplexityCatch(entered, query, Thrown("PERPLEXITY_API_KEY not set"))
        ELSE [entered EXCEPT !.pc = "api_fetch", !.requests = Append(@, "perplexity")]

\* lines 23-33: searchWeb up to its first suspension
searchWebEntry(query, key) ==
    IF KeyTruthy(key) THEN PerplexityEntry(NewTask, query, key)
    ELSE TryMarkup(NewTask, query)

\* mutant of PerplexityFromData: an answer without results counts as a failure
PerplexityFromDataThrowsOnEmpty(query, lim, data) ==
    IF ~data.hasChoices
    THEN Thrown("Cannot read properties of undefined (reading '0')")
    ELSE LET content == IF Len(data.choices) > 0 /\ data.choices[1].hasContent
                        THEN data.choices[1].content
                        ELSE <<>>
         IN  IF parsePerplexityResults(content, lim) = <<>>
             THEN Thrown("No results in API response")
             ELSE Returned(Envelope(query, parsePerplexityResults(content, lim), "perplexity"))

\* lines 117-129: searchWithPerplexity once response.json() has resolved
PerplexityFromData(query, lim, data) ==
    IF ~data.hasChoices
    THEN Thrown("Cannot read properties of undefined (reading '0')")
    ELSE LET content == IF Len(data.choices) > 0 /\ data.choices[1].hasContent
                        THEN data.choices[1].content
                        ELSE <<>>
         IN  Returned(Envelope(query, parsePerplexityResults(content, lim), "perplexity"))

\* mutant of MarkupFromHtml: an empty extraction is reported as an error
MarkupFromHtmlThrowsOnEmpty(query, lim, html) ==
    IF Len(parseDuckDuckGoResults(html, lim)) = 0 THEN Thrown("No results found")
    ELSE Returned(Envelope(query, parseDuckDuckGoResults(html, lim), "duckduckgo"))

\* lines 52-63: searchWeb once response.text() has resolved
MarkupFromHtml(query, lim, html) ==
    Returned(Envelope(query, parseDuckDuckGoResults(html, lim), "duckduckgo"))

(***************************************************************************)
(* Initial state: nothing has been called yet.                             *)
(***************************************************************************)
\* the query lists of a call: one query, or for a batch up to MaxQueries
\* pairwise distinct queries
Distinct(qs) == \A i, j \in 1..Len(qs) : i # j => qs[i] # qs[j]

QueryLists(o) ==
    IF o = "searchWebMultiple"
    THEN {qs \in UNION {[1..n -> Queries] : n \in 0..MaxQueries} : Distinct(qs)}
    ELSE [1..1 -> Queries]

Init ==
    /\ op \in Ops
    /\ apiKey \in ApiKeys
    /\ limit \in 1..MaxLimit
    /\ queries \in QueryLists(op)
    /\ tasks = [i \in 1..Len(queries) |-> NewTask]
    /\ top = [kind |-> "idle"]
    /\ fetchPc = "idle"
    /\ fetchIdx = 0
    /\ fetchedContent = <<>>
    /\ pageRequests = <<>>
    /\ pageAnswers = <<>>
    /\ outOfOrder = FALSE
    /\ extractor = ExtractorIdle

FetchUnchanged == UNCHANGED <<fetchPc, fetchIdx, fetchedContent, pageRequests, pageAnswers>>

\* whether, in ts, a call is complete while one made before it is not
Overtaken(ts) ==
    \E i, j \in 1..Len(ts) : j < i /\ ts[i].pc = "done" /\ ts[j].pc # "done"
InputsUnchanged == UNCHANGED <<op, apiKey, queries, limit, extractor>>

\* the promise of an exported searchWeb call is the task's own promise
TopAfter(newTasks) == IF op = "searchWeb" THEN newTasks[1].ret ELSE top

\* mutant of Step: a call that ends in failure aborts the calls still pending
StepAborting(i, t) ==
    /\ tasks' = [j \in Tasks |->
                    IF j = i THEN t
                    ELSE IF t.pc = "done" /\ t.ret.value.source = "none"
                            /\ tasks[j].pc # "done"
                         THEN Resolve(tasks[j], ErrorEnvelope(queries[j], "aborted"))
                         ELSE tasks[j]]
    /\ outOfOrder' = (outOfOrder \/ Overtaken(tasks'))
    /\ top' = TopAfter(tasks')
    /\ InputsUnchanged
    /\ FetchUnchanged

\* task i runs from one suspension point to the next
Step(i, t) ==
    /\ tasks' = [tasks EXCEPT ![i] = t]
    /\ outOfOrder' = (outOfOrder \/ Overtaken(tasks'))
    /\ top' = TopAfter(tasks')
    /\ InputsUnchanged
    /\ FetchUnchanged

(***************************************************************************)
(* The exported functions, up to their first suspension.                   *)
(***************************************************************************)
searchWeb ==
    /\ op = "searchWeb"
    /\ top.kind = "idle"
    /\ tasks' = [i \in Tasks |-> searchWebEntry(queries[i], apiKey)]
    /\ outOfOrder' = Overtaken(tasks')
    /\ top' = tasks'[1].ret
    /\ InputsUnchanged
    /\ FetchUnchanged

\* lines 236-238: queries.map(...) calls searchWeb for each query in turn
searchWebMultiple ==
    /\ op = "searchWebMultiple"
    /\ top.kind = "idle"
    /\ tasks' = [i \in Tasks |-> searchWebEntry(queries[i], apiKey)]
    /\ outOfOrder' = Overtaken(tasks')
    /\ top' = Pending
    /\ InputsUnchanged
    /\ FetchUnchanged

\* lines 252-255
searchAndFetch ==
    /\ op = "searchAndFetch"
    /\ top.kind = "idle"
    /\ tasks' = [i \in Tasks |-> searchWebEntry(queries[i], apiKey)]
    /\ outOfOrder' = Overtaken(tasks')
    /\ top' = Pending
    /\ fetchPc' = "search"
    /\ UNCHANGED <<fetchIdx, fetchedContent, pageRequests, pageAnswers>>
    /\ InputsUnchanged

(***************************************************************************)
(* The API adapter's request (lines 90-121).                               *)
(***************************************************************************)
ApiFetchRejects(i) ==
    /\ tasks[i].pc = "api_fetch"
    /\ Step(i, PerplexityCatch([tasks[i] EXCEPT !.apiAnswer = [status |-> "failed"]],
                               queries[i], Thrown("fetch failed")))

ApiFetchNotOk(i) ==
    /\ tasks[i].pc = "api_fetch"
    /\ Step(i, [tasks[i] EXCEPT !.pc = "api_errtext", !.apiAnswer = [status |-> "failed"]])

\* lines 113-114: whether reading the error body succeeds or not, it throws
ApiErrorTextSettles(i) ==
    /\ tasks[i].pc = "api_errtext"
    /\ \E read \in BOOLEAN :
          Step(i, PerplexityCatch(tasks[i], queries[i],
                      Thrown(IF read THEN "Perplexity API error" ELSE "terminated")))

ApiFetchOk(i) ==
    /\ tasks[i].pc = "api_fetch"
    /\ Step(i, [tasks[i] EXCEPT !.pc = "api_json"])

ApiJsonRejects(i) ==
    /\ tasks[i].pc = "api_json"
    /\ Step(i, PerplexityCatch([tasks[i] EXCEPT !.apiAnswer = [status |-> "failed"]],
                               queries[i], Thrown("Unexpected token in JSON")))

ApiJsonResolves(i) ==
    /\ tasks[i].pc = "api_json"
    /\ \E data \in ApiBodies :
          Step(i, PerplexityCatch(
                      [tasks[i] EXCEPT !.apiAnswer = [status |-> "data", data |-> data]],
                      queries[i], PerplexityFromData(queries[i], limit, data)))

(***************************************************************************)
(* The markup adapter's request (lines 40-63).                             *)
(***************************************************************************)
MarkupFetchRejects(i) ==
    /\ tasks[i].pc = "ddg_fetch"
    /\ Step(i, MarkupCatch([tasks[i] EXCEPT !.markupAnswer = Failed("fetch failed")],
                           queries[i], Thrown("fetch failed")))

\* lines 48-50
MarkupFetchNotOk(i) ==
    /\ tasks[i].pc = "ddg_fetch"
    /\ Step(i, MarkupCatch([tasks[i] EXCEPT
                               !.markupAnswer = Failed("Search failed: Service Unavailable")],
                           queries[i], Thrown("Search failed: Service Unavailable")))

MarkupFetchOk(i) ==
    /\ tasks[i].pc = "ddg_fetch"
    /\ Step(i, [tasks[i] EXCEPT !.pc = "ddg_text"])

MarkupTextRejects(i) ==
    /\ tasks[i].pc = "ddg_text"
    /\ Step(i, MarkupCatch([tasks[i] EXCEPT !.markupAnswer = Failed("terminated")],
                           queries[i], Thrown("terminated")))

MarkupTextResolves(i) ==
    /\ tasks[i].pc = "ddg_text"
    /\ \E html \in HtmlBodies :
          Step(i, MarkupCatch(
                      [tasks[i] EXCEPT !.markupAnswer = [status |-> "html", html |-> html]],
                      queries[i], MarkupFromHtml(queries[i], limit, html)))

(***************************************************************************)
(* searchWebMultiple: the continuation of `await Promise.all(...)`.        *)
(***************************************************************************)
\* results.reduce((sum, r) => sum + r.total, 0)
RECURSIVE Reduce(_, _, _)
Reduce(results, k, sum) ==
    IF k > Len(results) THEN sum
    ELSE Reduce(results, k + 1, sum + results[k].total)

\* mutant of PromiseAllValues: each value is put in front of the earlier ones
PromiseAllValuesReversed(ts) == [i \in 1..Len(ts) |-> ts[Len(ts) + 1 - i].ret.value]

\* Promise.all: the values in the order of the promises, whatever the order
\* in which they settled
PromiseAllValues(ts) == [i \in 1..Len(ts) |-> ts[i].ret.value]

\* mutant of MultiQueryEnvelope: totalResults counts the envelopes
MultiQueryEnvelopeCountsEnvelopes(qs, results) ==
    [queries |-> qs, results |-> results, totalResults |-> Len(results)]

\* lines 240-245
MultiQueryEnvelope(qs, results) ==
    [queries |-> qs, results |-> results, totalResults |-> Reduce(results, 1, 0)]

\* Promise.all rejects as soon as one promise rejects, and is fulfilled once
\* all are
searchWebMultipleResume ==
    /\ op = "searchWebMultiple"
    /\ top.kind = "pending"
    /\ (\E i \in Tasks : tasks[i].ret.kind = "rejected")
          \/ (\A i \in Tasks : tasks[i].ret.kind = "fulfilled")
    /\ top' = IF \E i \in Tasks : tasks[i].ret.kind = "rejected"
              THEN Rejected((CHOOSE i \in Tasks : tasks[i].ret.kind = "rejected"))
              ELSE Fulfilled(MultiQueryEnvelope(queries, PromiseAllValues(tasks)))
    /\ UNCHANGED <<tasks, outOfOrder>>
    /\ InputsUnchanged
    /\ FetchUnchanged

(***************************************************************************)
(* searchAndFetch: the loop of lines 258-283 and fetchWebPage.             *)
(***************************************************************************)
Null == [null |-> TRUE]

\* the bodies a page may answer with: the text left once scripts, styles and
\* tags are removed and whitespace is collapsed, and whether there was markup
Page(core, len, markup) == [core |-> core, len |-> len, markup |-> markup]
Pages ==
    { Page("", 0, TRUE), Page("note", 120, FALSE),
      Page("article", 7000, TRUE), Page("book", 12000, TRUE) }

\* lines 304-311
TextContent(page) == Substring(Trim([core |-> page.core, len |-> page.len]), PageTextMax)

\* line 313: the error fetchWebPage rethrows
FetchFailure(url, message) == [failed |-> url, cause |-> message]

\* searchResults.results.slice(0, fetchCount)
Slice(results, count) == SubSeq(results, 1, Min(count, Len(results)))

\* lines 263-266
Enriched(result, content) ==
    [title |-> result.title, url |-> result.url, snippet |-> result.snippet,
     rank |-> result.rank, content |-> Substring(content, ContentMax)]

\* lines 269-273
EnrichedFailure(result, message) ==
    [title |-> result.title, url |-> result.url, snippet |-> result.snippet,
     rank |-> result.rank, content |-> Null, fetchError |-> message]

\* lines 277-282
EnrichmentEnvelope(query, searchResults, fetched) ==
    [query |-> query, searchResults |-> searchResults.results, fetchedContent |-> fetched]

SearchResults == tasks[1].ret.value

\* mutant of LoopHead: the page of the next result is requested along with
\* the page of the current one
LoopHeadPrefetching(idx, fetched, answers) ==
    LET slice == Slice(SearchResults.results, limit)
    IN  /\ fetchedContent' = fetched
        /\ pageAnswers' = answers
        /\ IF idx <= Len(slice)
           THEN /\ fetchIdx' = idx
                /\ fetchPc' = "page_fetch"
                /\ pageRequests' =
                       IF idx + 1 <= Len(slice) /\ Len(pageRequests) < idx + 1
                       THEN pageRequests \o <<slice[idx].url, slice[idx + 1].url>>
                       ELSE IF Len(pageRequests) < idx
                       THEN Append(pageRequests, slice[idx].url)
                       ELSE pageRequests
                /\ top' = top
           ELSE /\ fetchIdx' = idx
                /\ fetchPc' = "done"
                /\ pageRequests' = pageRequests
                /\ top' = Fulfilled(EnrichmentEnvelope(queries[1], SearchResults, fetched))
        /\ UNCHANGED <<tasks, outOfOrder>>
        /\ InputsUnchanged

\* the head of the for loop at index idx with the local array fetched:
\* either the next page is requested or the function returns
LoopHead(idx, fetched, answers) ==
    LET slice == Slice(SearchResults.results, limit)
    IN  /\ fetchedContent' = fetched
        /\ pageAnswers' = answers
        /\ IF idx <= Len(slice)
           THEN /\ fetchIdx' = idx
                /\ fetchPc' = "page_fetch"
                /\ pageRequests' = Append(pageRequests, slice[idx].url)
                /\ top' = top
           ELSE /\ fetchIdx' = idx
                /\ fetchPc' = "done"
                /\ pageRequests' = pageRequests
                /\ top' = Fulfilled(EnrichmentEnvelope(queries[1], SearchResults, fetched))
        /\ UNCHANGED <<tasks, outOfOrder>>
        /\ InputsUnchanged

CurrentResult == Slice(SearchResults.results, limit)[fetchIdx]

\* line 255 resumes: the search has settled
searchAndFetchResume ==
    /\ op = "searchAndFetch"
    /\ fetchPc = "search"
    /\ tasks[1].ret.kind # "pending"
    /\ IF tasks[1].ret.kind = "rejected"
       THEN /\ top' = Rejected(tasks[1].ret.message)
            /\ fetchPc' = "done"
            /\ UNCHANGED <<tasks, outOfOrder, fetchIdx, fetchedContent,
                           pageRequests, pageAnswers>>
            /\ InputsUnchanged
       ELSE LoopHead(1, <<>>, <<>>)

\* mutant of PageFails: a failed fetch is tried again
PageFailsRetries(message) ==
    LoopHead(fetchIdx, fetchedContent, Append(pageAnswers, "failed"))

\* mutant of PageFails: the first failed fetch ends the loop
PageFailsBreaks(message) ==
    /\ fetchedContent' =
           Append(fetchedContent,
                  EnrichedFailure(CurrentResult, FetchFailure(CurrentResult.url, message)))
    /\ pageAnswers' = Append(pageAnswers, "failed")
    /\ fetchPc' = "done"
    /\ top' = Fulfilled(EnrichmentEnvelope(queries[1], SearchResults, fetchedContent'))
    /\ UNCHANGED <<tasks, outOfOrder, fetchIdx, pageRequests>>
    /\ InputsUnchanged

\* mutant of PageFails: a failed fetch is skipped, nothing is pushed for it
PageFailsSkips(message) ==
    LoopHead(fetchIdx + 1, fetchedContent, Append(pageAnswers, "failed"))

\* the catch of lines 267-274 and the next iteration
PageFails(message) ==
    LoopHead(fetchIdx + 1,
             Append(fetchedContent,
                    EnrichedFailure(CurrentResult, FetchFailure(CurrentResult.url, message))),
             Append(pageAnswers, "failed"))

\* a network error, or the 10 second timeout of line 294
PageFetchRejects ==
    /\ fetchPc = "page_fetch"
    /\ \E message \in {"fetch failed", "The operation was aborted due to timeout"} :
          PageFails(message)

\* lines 297-299
PageFetchNotOk ==
    /\ fetchPc = "page_fetch"
    /\ PageFails("Failed to fetch: Not Found")

PageFetchOk ==
    /\ fetchPc = "page_fetch"
    /\ fetchPc' = "page_text"
    /\ UNCHANGED <<tasks, top, outOfOrder, fetchIdx, fetchedContent,
                   pageRequests, pageAnswers>>
    /\ InputsUnchanged

PageTextRejects ==
    /\ fetchPc = "page_text"
    /\ \E message \in {"terminated", "The operation was aborted due to timeout"} :
          PageFails(message)

\* lines 301-311 and 263-266
PageTextResolves ==
    /\ fetchPc = "page_text"
    /\ \E page \in Pages :
          LoopHead(fetchIdx + 1,
                   Append(fetchedContent, Enriched(CurrentResult, TextContent(page))),
                   Append(pageAnswers, "ok"))

(***************************************************************************)
(* The specification.                                                      *)
(***************************************************************************)
Next ==
    \/ searchWeb
    \/ searchWebMultiple
    \/ searchAndFetch
    \/ \E i \in Tasks : ApiFetchRejects(i)
    \/ \E i \in Tasks : ApiFetchNotOk(i)
    \/ \E i \in Tasks : ApiErrorTextSettles(i)
    \/ \E i \in Tasks : ApiFetchOk(i)
    \/ \E i \in Tasks : ApiJsonRejects(i)
    \/ \E i \in Tasks : ApiJsonResolves(i)
    \/ \E i \in Tasks : MarkupFetchRejects(i)
    \/ \E i \in Tasks : MarkupFetchNotOk(i)
    \/ \E i \in Tasks : MarkupFetchOk(i)
    \/ \E i \in Tasks : MarkupTextRejects(i)
    \/ \E i \in Tasks : MarkupTextResolves(i)
    \/ searchWebMultipleResume
    \/ searchAndFetchResume
    \/ PageFetchRejects
    \/ PageFetchNotOk
    \/ PageFetchOk
    \/ PageTextRejects
    \/ PageTextResolves

Spec == Init /\ [][Next]_vars

\* every network request eventually succeeds or fails, and the event loop
\* then runs the continuation that awaits it: a step that stays possible is
\* eventually taken
FairSpec == Spec /\ WF_vars(Next)

(***************************************************************************)
(* The extractors on their own: parseDuckDuckGoResults and                 *)
(* parsePerplexityResults called on any document, followed statement by    *)
(* statement. Both are synchronous and take (text, limit).                 *)
(***************************************************************************)
MaxAnchors == 4
MaxSpans == 3

Extractors == {"parseDuckDuckGoResults", "parsePerplexityResults"}

\* the anchors the documents are made of, and every document of up to
\* MaxAnchors of them
AnchorKinds ==
    {LinkExample, LinkThird, LinkSelf, LinkRelative,
     SnippetShort, SnippetBlank, PlainLink, PlainScript}
HtmlDocuments == UNION {[1..n -> AnchorKinds] : n \in 0..MaxAnchors}

\* the citation spans the contents are made of, and every content of up to
\* MaxSpans of them
SpanKinds == {CitationText[k] : k \in 1..Len(CitationText)}
Contents == UNION {[1..n -> SpanKinds] : n \in 0..MaxSpans}

\* parseDuckDuckGoResults(html, limit) at line 171: const results = [],
\* links = [], snippets = []. primary and ran are history: the links
\* strategy 1 accepted, and the strategies that have run
MarkupRun(html) ==
    [pc |-> "modern", html |-> html, links |-> <<>>, snippets |-> <<>>,
     results |-> <<>>, primary |-> <<>>, ran |-> <<>>]

\* parsePerplexityResults(content, limit) at line 136: const results = [],
\* let rank = 1, citationRegex.lastIndex = 0. visited is history: the spans
\* the loop body has run on
CitationRun(content) ==
    [pc |-> "scan", content |-> content, lastIndex |-> 0,
     results |-> <<>>, rank |-> 1, visited |-> <<>>]

ExtractInit ==
    /\ op \in Extractors
    /\ limit \in 1..MaxLimit
    /\ extractor \in IF op = "parseDuckDuckGoResults"
                     THEN {MarkupRun(html) : html \in HtmlDocuments}
                     ELSE {CitationRun(content) : content \in Contents}
    /\ apiKey = "unset"
    /\ queries = <<>>
    /\ tasks = <<>>
    /\ top = [kind |-> "idle"]
    /\ fetchPc = "idle"
    /\ fetchIdx = 0
    /\ fetchedContent = <<>>
    /\ pageRequests = <<>>
    /\ pageAnswers = <<>>
    /\ outOfOrder = FALSE

FlowUnchanged ==
    UNCHANGED <<op, apiKey, queries, limit, tasks, top, outOfOrder,
                fetchPc, fetchIdx, fetchedContent, pageRequests, pageAnswers>>

\* lines 174-194: strategy 1 and the snippets
StrategyModern ==
    /\ op = "parseDuckDuckGoResults"
    /\ extractor.pc = "modern"
    /\ LET links == ModernLoop(extractor.html, 1, extractor.links, limit)
       IN  extractor' = [extractor EXCEPT
                             !.pc = "generic",
                             !.links = links,
                             !.primary = links,
                             !.snippets = SnippetLoop(extractor.html, 1, @, limit),
                             !.ran = Append(@, "modern")]
    /\ FlowUnchanged

\* lines 196-208: strategy 2, if strategy 1 left links empty
StrategyGeneric ==
    /\ op = "parseDuckDuckGoResults"
    /\ extractor.pc = "generic"
    /\ extractor' =
           IF NeedsFallback(extractor.links, limit)
           THEN [extractor EXCEPT
                     !.pc = "combine",
                     !.links = GenericLoop(extractor.html, 1, @, limit),
                     !.ran = Append(@, "generic")]
           ELSE [extractor EXCEPT !.pc = "combine"]
    /\ FlowUnchanged

\* lines 210-229: combine links and snippets, return results
CombineResults ==
    /\ op = "parseDuckDuckGoResults"
    /\ extractor.pc = "combine"
    /\ extractor' = [extractor EXCEPT
                         !.pc = "done",
                         !.results = CombineLinks(extractor.links, extractor.snippets, limit)]
    /\ FlowUnchanged

\* one evaluation of the loop condition of line 145 and, if it holds, one
\* run of the body (lines 146-161): exec() advances lastIndex past the span
\* it matched before results.length is compared with limit
CitationIteration ==
    /\ op = "parsePerplexityResults"
    /\ extractor.pc = "scan"
    /\ LET k == extractor.lastIndex + 1
       IN  extractor' =
               IF k > Len(extractor.content)
               THEN [extractor EXCEPT !.pc = "done"]
               ELSE IF ~(Len(extractor.results) < limit)
               THEN [extractor EXCEPT !.pc = "done", !.lastIndex = k]
               ELSE IF HasUrl(extractor.content[k])
               THEN [extractor EXCEPT
                         !.lastIndex = k,
                         !.visited = Append(@, k),
                         !.results = Append(@, CitationResult(extractor.content[k],
                                                              extractor.rank)),
                         !.rank = @ + 1]
               ELSE [extractor EXCEPT !.lastIndex = k, !.visited = Append(@, k)]
    /\ FlowUnchanged

ExtractNext ==
    \/ StrategyModern
    \/ StrategyGeneric
    \/ CombineResults
    \/ CitationIteration

SpecExtract == ExtractInit /\ [][ExtractNext]_vars

(***************************************************************************)
(* Properties.                                                             *)
(***************************************************************************)
InSeq(x, seq) == \E k \in 1..Len(seq) : seq[k] = x

IsDone(i) == tasks[i].pc = "done"
IsFulfilled(i) == tasks[i].ret.kind = "fulfilled"
EnvelopeOf(i) == tasks[i].ret.value
HasError(e) == "error" \in DOMAIN e

\* the shape of a SearchEnvelope for query q (spec section 3)
IsEnvelope(e, q) ==
    /\ DOMAIN e \in {{"query", "results", "total", "source"},
                     {"query", "results", "total", "source", "error"}}
    /\ e.query = q
    /\ e.source \in {"perplexity", "duckduckgo", "none"}
    /\ e.total \in Nat

\* C1: searchWeb never rejects: whatever the query, the credential and the
\* outcome of the API and markup requests, a call that has ended has
\* resolved to a SearchEnvelope for its query.
C1_AlwaysEnvelope ==
    /\ \A i \in Tasks :
          /\ tasks[i].ret.kind # "rejected"
          /\ IsDone(i) <=> IsFulfilled(i)
          /\ IsFulfilled(i) => IsEnvelope(EnvelopeOf(i), queries[i])
    /\ op = "searchWeb" => top.kind # "rejected"

\* a searchWeb call whose API request and markup request both failed has ended
C1_Witness ==
    /\ op = "searchWeb"
    /\ top.kind = "fulfilled"
    /\ tasks[1].apiAnswer.status = "failed"
    /\ tasks[1].markupAnswer.status = "failed"

\* C2: in every envelope searchWeb returns, source is 'none' exactly when
\* error is present and results is empty, and total is the length of results.
C2_SourceNoneIffError ==
    \A i \in Tasks :
       IsFulfilled(i) =>
          LET e == EnvelopeOf(i)
          IN  /\ (e.source = "none") <=> (HasError(e) /\ e.results = <<>>)
              /\ e.total = Len(e.results)

\* one batch holds a failed envelope and an envelope with results
C2_Witness ==
    \E i, j \in Tasks :
       /\ IsFulfilled(i) /\ IsFulfilled(j)
       /\ EnvelopeOf(i).source = "none" /\ HasError(EnvelopeOf(i))
       /\ EnvelopeOf(j).source # "none" /\ EnvelopeOf(j).total > 1

\* C3: with the API credential unset, the API adapter is never entered, no
\* request goes to the API provider, and the source of the envelope is the
\* markup provider or 'none'.
C3_NoApiWithoutCredential ==
    apiKey = "unset" =>
       \A i \in Tasks :
          /\ ~InSeq("api", tasks[i].attempts)
          /\ ~InSeq("perplexity", tasks[i].requests)
          /\ IsFulfilled(i) => EnvelopeOf(i).source \in {"duckduckgo", "none"}

C3_Witness ==
    /\ apiKey = "unset"
    /\ \E i \in Tasks :
          /\ IsFulfilled(i)
          /\ tasks[i].requests = <<"duckduckgo">>
          /\ EnvelopeOf(i).source = "duckduckgo"
          /\ EnvelopeOf(i).total > 0

\* the API adapter of call t has been entered and has thrown
ApiFailed(t) ==
    /\ InSeq("api", t.attempts)
    /\ \/ t.apiAnswer.status = "failed" /\ t.pc # "api_errtext"
       \/ t.apiAnswer.status = "data" /\ ~t.apiAnswer.data.hasChoices

C5_EmptySuccessIsNotFailure ==
    \A i \in Tasks :
       IsFulfilled(i) =>
          LET e == EnvelopeOf(i)
              answer == tasks[i].markupAnswer
          IN  /\ answer.status = "html" =>
                    /\ e.source = "duckduckgo"
                    /\ ~HasError(e)
                    /\ Len(parseDuckDuckGoResults(answer.html, limit)) = 0
                          => e.results = <<>> /\ e.total = 0
              /\ answer.status = "failed" =>
                    /\ e.source = "none"
                    /\ HasError(e)
                    /\ e.error = answer.message
                    /\ e.results = <<>>

\* a document with anchors from which nothing is extracted
C5_Witness ==
    \E i \in Tasks :
       /\ IsFulfilled(i)
       /\ tasks[i].markupAnswer.status = "html"
       /\ Len(tasks[i].markupAnswer.html) > 0
       /\ EnvelopeOf(i).results = <<>>
       /\ EnvelopeOf(i).source = "duckduckgo"

\* C6: the results of searchWebMultiple have the length of queries and
\* results[i].query = queries[i] for every i, in whatever order the
\* individual searches completed.
C6_ResultsAlignedWithQueries ==
    (op = "searchWebMultiple" /\ top.kind = "fulfilled") =>
       /\ top.value.queries = queries
       /\ Len(top.value.results) = Len(queries)
       /\ \A i \in 1..Len(queries) : top.value.results[i].query = queries[i]

\* a batch of two has returned after its second search completed first
C6_Witness ==
    /\ op = "searchWebMultiple"
    /\ top.kind = "fulfilled"
    /\ queries = <<"a", "b">>
    /\ outOfOrder

\* what searchWeb returns for a query on its own (lines 23-77), given what the
\* network answers to its API request and to its markup request
ApiReturned(key, api) == KeyTruthy(key) /\ api.status = "data" /\ api.data.hasChoices

AnswersComplete(query, key, api, markup) ==
    /\ KeyTruthy(key) => api.status \in {"failed", "data"}
    /\ (~ApiReturned(key, api) /\ WellFormed(query)) => markup.status \in {"failed", "html"}

searchWebAlone(query, key, lim, api, markup) ==
    IF ApiReturned(key, api)
    THEN PerplexityFromData(query, lim, api.data).value
    ELSE IF ~WellFormed(query) THEN ErrorEnvelope(query, "URI malformed")
    ELSE IF markup.status = "html" THEN MarkupFromHtml(query, lim, markup.html).value
    ELSE ErrorEnvelope(query, markup.message)

AloneOf(i) ==
    searchWebAlone(queries[i], apiKey, limit, tasks[i].apiAnswer, tasks[i].markupAnswer)

\* C7: in searchWebMultiple the batch is never rejected, and the envelope of
\* every query is the one searchWeb returns for that query alone given the
\* answers the network gave to that query's own requests, whatever happened
\* to the other queries of the batch.
C7_QueriesIsolated ==
    op = "searchWebMultiple" =>
       /\ top.kind # "rejected"
       /\ \A i \in Tasks :
             IsDone(i) =>
                /\ AnswersComplete(queries[i], apiKey, tasks[i].apiAnswer,
                                   tasks[i].markupAnswer)
                /\ tasks[i].ret = Fulfilled(AloneOf(i))
       /\ top.kind = "fulfilled" =>
             \A i \in Tasks : top.value.results[i] = AloneOf(i)

\* a batch has returned in which both requests of one query failed, and a
\* sibling that was still pending at that moment holds results
C7_Witness ==
    /\ op = "searchWebMultiple"
    /\ top.kind = "fulfilled"
    /\ outOfOrder
    /\ tasks[2].apiAnswer.status = "failed"
    /\ tasks[2].markupAnswer.status = "failed"
    /\ top.value.results[2].source = "none"
    /\ top.value.results[1].source = "duckduckgo"
    /\ top.value.results[1].total > 0

RECURSIVE SumOfTotals(_)
SumOfTotals(envelopes) ==
    IF envelopes = <<>> THEN 0
    ELSE Head(envelopes).total + SumOfTotals(Tail(envelopes))

CountOfResults(envelopes) ==
    Cardinality(UNION {{i} \X DOMAIN envelopes[i].results : i \in 1..Len(envelopes)})

\* C8: totalResults is the sum of the totals of the envelopes in results (0
\* for no query), which is the number of SearchResults in all of them.
C8_TotalResultsIsSum ==
    (op = "searchWebMultiple" /\ top.kind = "fulfilled") =>
       /\ top.value.totalResults = SumOfTotals(top.value.results)
       /\ top.value.totalResults = CountOfResults(top.value.results)
       /\ queries = <<>> => top.value.totalResults = 0

C8_Witness ==
    /\ op = "searchWebMultiple"
    /\ top.kind = "fulfilled"
    /\ Len(top.value.results) = 2
    /\ top.value.results[1].total = 2
    /\ top.value.results[2].total = 1
    /\ top.value.totalResults = 3

\* the results searchAndFetch iterates over
FetchSlice == Slice(SearchResults.results, limit)

\* C9: every page fetch of searchAndFetch is isolated: a failed fetch gives
\* an entry with content = null and fetchError set, a successful one an entry
\* with a non-null content and no fetchError, and a failure never keeps the
\* later results from being fetched and reported nor rejects the call.
C9_FetchFailuresIsolated ==
    op = "searchAndFetch" =>
       /\ top.kind # "rejected"
       /\ Len(fetchedContent) = Len(pageAnswers)
       /\ \A k \in 1..Len(fetchedContent) :
             /\ pageAnswers[k] = "failed" =>
                   /\ fetchedContent[k].content = Null
                   /\ "fetchError" \in DOMAIN fetchedContent[k]
             /\ pageAnswers[k] = "ok" =>
                   /\ fetchedContent[k].content # Null
                   /\ "fetchError" \notin DOMAIN fetchedContent[k]
       /\ top.kind = "fulfilled" =>
             /\ top.value.fetchedContent = fetchedContent
             /\ Len(fetchedContent) = Len(FetchSlice)
             /\ pageRequests = [k \in 1..Len(FetchSlice) |-> FetchSlice[k].url]

\* the first fetch failed and the second succeeded
C9_Witness ==
    /\ op = "searchAndFetch"
    /\ top.kind = "fulfilled"
    /\ pageAnswers = <<"failed", "ok">>
    /\ top.value.fetchedContent[1].content = Null
    /\ top.value.fetchedContent[2].content.len > 0

\* C10: in the envelope searchAndFetch returns, fetchedContent has length
\* min(fetchCount, length of searchResults) and fetchedContent[i] has the
\* title, url, snippet and rank of searchResults[i], whatever fetches failed.
C10_FetchedContentAligned ==
    (op = "searchAndFetch" /\ top.kind = "fulfilled") =>
       LET e == top.value
       IN  /\ e.searchResults = SearchResults.results
           /\ Len(e.fetchedContent) = Min(limit, Len(e.searchResults))
           /\ \A k \in 1..Len(e.fetchedContent) :
                 /\ k <= Len(e.searchResults)
                 /\ e.fetchedContent[k].title = e.searchResults[k].title
                 /\ e.fetchedContent[k].url = e.searchResults[k].url
                 /\ e.fetchedContent[k].snippet = e.searchResults[k].snippet
                 /\ e.fetchedContent[k].rank = e.searchResults[k].rank

\* the first fetch succeeded and the second failed
C10_Witness ==
    /\ op = "searchAndFetch"
    /\ top.kind = "fulfilled"
    /\ limit = 2
    /\ Len(top.value.searchResults) = 2
    /\ pageAnswers = <<"ok", "failed">>

(***************************************************************************)
(* Properties of the extractors.                                           *)
(***************************************************************************)
MarkupDone == op = "parseDuckDuckGoResults" /\ extractor.pc = "done"
CitationDone == op = "parsePerplexityResults" /\ extractor.pc = "done"

\* C11: for every HTML document and every limit L >= 1, parseDuckDuckGoResults
\* returns at most L results whose ranks are exactly 1..length in order, and
\* it never throws: the call always runs on to its return statement, and what
\* it returns is what the markup adapter gets from it.
C11_MarkupResultsBounded ==
    /\ op = "parseDuckDuckGoResults" /\ extractor.pc # "done" => ENABLED ExtractNext
    /\ MarkupDone =>
           /\ Len(extractor.results) <= limit
           /\ \A i \in 1..Len(extractor.results) : extractor.results[i].rank = i
           /\ extractor.results = parseDuckDuckGoResults(extractor.html, limit)

\* more links were collected than the limit allows to return
C11_Witness ==
    /\ MarkupDone
    /\ Len(extractor.links) > limit
    /\ Len(extractor.results) = limit

SelfLink(url) == \E k \in 1..Len(url) : url[k] = "duckduckgo.com"

\* C12, as stated: no result of any envelope searchWeb returns, whichever
\* adapter produced it, has a url that holds 'duckduckgo.com'.
C12_NoSelfLinkAnyAdapter ==
    \A i \in Tasks :
        IsDone(i) /\ IsFulfilled(i) =>
            \A k \in 1..Len(EnvelopeOf(i).results) : ~SelfLink(EnvelopeOf(i).results[k].url)

\* C12, amended: no result of an envelope the markup adapter produced
\* (source 'duckduckgo') has a url that holds 'duckduckgo.com'; the citation
\* extractor returns the URLs of the API's text unfiltered.
C12_NoSelfLinkFromMarkup ==
    \A i \in Tasks :
        IsDone(i) /\ IsFulfilled(i) /\ EnvelopeOf(i).source = "duckduckgo" =>
            \A k \in 1..Len(EnvelopeOf(i).results) : ~SelfLink(EnvelopeOf(i).results[k].url)

\* the markup adapter returned results for a document that holds a link to
\* duckduckgo.com
C12_Witness ==
    \E i \in Tasks :
        /\ IsDone(i) /\ IsFulfilled(i)
        /\ EnvelopeOf(i).source = "duckduckgo"
        /\ EnvelopeOf(i).results # <<>>
        /\ tasks[i].markupAnswer.status = "html"
        /\ \E k \in 1..Len(tasks[i].markupAnswer.html) :
               SelfLink(tasks[i].markupAnswer.html[k].href)

\* the positions of the spans of content that hold a URL, in order
UrlSpans(content) ==
    SelectSeq([k \in 1..Len(content) |-> k], LAMBDA k : content[k].url # <<>>)

\* C13: the citation extractor skips a span that holds no URL without
\* counting it toward limit and without consuming a rank: its results are, in
\* order of appearance, the first spans that hold a URL, at most limit of
\* them, ranked 1..length; and once limit results are produced the loop body
\* runs on no further span.
C13_CitationSkipsSpansWithoutUrl ==
    op = "parsePerplexityResults" =>
        LET content == extractor.content
            results == extractor.results
            found == UrlSpans(content)
        IN  /\ Len(results) <= Min(limit, Len(found))
            /\ \A j \in 1..Len(results) :
                   /\ results[j].rank = j
                   /\ results[j].url = content[found[j]].url
            /\ extractor.rank = Len(results) + 1
            /\ \A v \in 1..Len(extractor.visited) :
                   Cardinality({j \in 1..Len(found) : found[j] < extractor.visited[v]}) < limit
            /\ extractor.pc = "done" =>
                   /\ Len(results) = Min(limit, Len(found))
                   /\ results = parsePerplexityResults(content, limit)

\* a span without URL was passed over, limit results were produced and the
\* scan ended before the last span
C13_Witness ==
    /\ CitationDone
    /\ \E v \in 1..Len(extractor.visited) : extractor.content[extractor.visited[v]].url = <<>>
    /\ Len(extractor.results) = limit
    /\ Len(extractor.visited) < Len(extractor.content)

HasToken(url, tok) == \E k \in 1..Len(url) : url[k] = tok

\* C14: canonicalizing a URL (cutting it at its first '&' or '?') is
\* idempotent, and every url the markup extractor returns is canonical: it
\* holds neither '?' nor '&', and it is the canonical form of the link's url.
C14_UrlCanonical ==
    /\ op = "parseDuckDuckGoResults" =>
           \A k \in 1..Len(extractor.html) :
               CleanUrl(CleanUrl(extractor.html[k].href)) = CleanUrl(extractor.html[k].href)
    /\ MarkupDone =>
           \A i \in 1..Len(extractor.results) :
               LET url == extractor.results[i].url
               IN  /\ ~HasToken(url, "?")
                   /\ ~HasToken(url, "&")
                   /\ CleanUrl(url) = url
                   /\ \E n \in 0..Len(extractor.links[i].url) :
                          /\ url = SubSeq(extractor.links[i].url, 1, n)
                          /\ n < Len(extractor.links[i].url) =>
                                 extractor.links[i].url[n + 1] \in {"?", "&"}

\* a returned url was cut at an '&' that no '?' precedes, another at a '?'
C14_Witness ==
    /\ MarkupDone
    /\ \E i \in 1..Len(extractor.results) :
           /\ HasToken(extractor.links[i].url, "&")
           /\ ~HasToken(extractor.links[i].url, "?")
    /\ \E i \in 1..Len(extractor.results) :
           /\ HasToken(extractor.links[i].url, "?")
           /\ extractor.results[i].url # extractor.links[i].url

PrimaryAnchors(html) == SelectSeq(html, LAMBDA a : ModernMatch(a) /\ ModernAccept(a.href))
FallbackAnchors(html) == SelectSeq(html, LAMBDA a : GenericMatch(a) /\ GenericAccept(a.href))
FirstLinks(anchors, n) == [i \in 1..Min(n, Len(anchors)) |-> LinkOf(anchors[i])]

\* C16: the generic strategy runs iff the primary strategy accepted no link
\* (also when it matched anchors and the filter discarded all of them), and
\* then what it collected (possibly nothing) is what the results are made of;
\* when the primary strategy accepted a link, no link of the generic strategy
\* appears; each strategy collects at most 2 * limit candidates.
C16_FallbackIffNoPrimaryLink ==
    op = "parseDuckDuckGoResults" /\ extractor.pc \in {"combine", "done"} =>
        LET html == extractor.html
            primary == FirstLinks(PrimaryAnchors(html), 2 * limit)
            fallback == FirstLinks(FallbackAnchors(html), 2 * limit)
        IN  /\ extractor.primary = primary
            /\ Len(extractor.primary) <= 2 * limit
            /\ Len(extractor.links) <= 2 * limit
            /\ Len(extractor.snippets) <= 2 * limit
            /\ extractor.ran = (IF Len(primary) = 0 THEN <<"modern", "generic">>
                                ELSE <<"modern">>)
            /\ extractor.links = (IF Len(primary) = 0 THEN fallback ELSE primary)
            /\ extractor.pc = "done" =>
                   /\ Len(extractor.results) = Min(Len(extractor.links), limit)
                   /\ \A i \in 1..Len(extractor.results) :
                          extractor.results[i].url = CleanUrl(extractor.links[i].url)

\* the primary strategy matched an anchor and discarded it, the generic
\* strategy then met more than 2 * limit acceptable anchors and stopped at
\* 2 * limit links
C16_Witness ==
    /\ MarkupDone
    /\ \E k \in 1..Len(extractor.html) : ModernMatch(extractor.html[k])
    /\ extractor.primary = <<>>
    /\ Len(FallbackAnchors(extractor.html)) > 2 * limit
    /\ Len(extractor.links) = 2 * limit
    /\ extractor.results # <<>>

\* the snippet at position i if one exists there (be it empty), else the one
\* at position i - 1 if one exists there, else the empty snippet
SnippetByPosition(snippets, i) ==
    IF i <= Len(snippets) THEN snippets[i]
    ELSE IF 1 <= i - 1 /\ i - 1 <= Len(snippets) THEN snippets[i - 1]
    ELSE EmptyStr

\* C17: the snippet of the i-th result of the HTML extractor is the i-th
\* collected snippet (cut to 300 characters); only if no snippet exists at
\* position i is the (i-1)-th used, and the snippet is empty only if neither
\* exists.
C17_SnippetByPosition ==
    MarkupDone =>
        \A i \in 1..Len(extractor.results) :
            extractor.results[i].snippet =
                Substring(SnippetByPosition(extractor.snippets, i), SnippetMax)

\* C18: searchAndFetch fetches the pages one after the other in rank order:
\* at most one page request is in flight, the request for result k + 1 is
\* issued only once the request for result k has settled, and no page is
\* requested before the search has resolved.
C18_FetchesSequential ==
    op = "searchAndFetch" =>
        /\ Len(pageAnswers) <= Len(pageRequests)
        /\ Len(pageRequests) <= Len(pageAnswers) + 1
        /\ Len(pageRequests) = Len(pageAnswers) + 1 <=> fetchPc \in {"page_fetch", "page_text"}
        /\ fetchPc \in {"idle", "search"} => pageRequests = <<>>
        /\ pageRequests # <<>> =>
               /\ tasks[1].pc = "done"
               /\ tasks[1].ret.kind = "fulfilled"
               /\ Len(pageRequests) <= Len(tasks[1].ret.value.results)
               /\ \A k \in 1..Len(pageRequests) :
                      /\ tasks[1].ret.value.results[k].rank = k
                      /\ pageRequests[k] = tasks[1].ret.value.results[k].url

\* the second page is being fetched, the first fetch has settled
C18_Witness ==
    /\ op = "searchAndFetch"
    /\ fetchPc \in {"page_fetch", "page_text"}
    /\ Len(pageRequests) = 2
    /\ Len(pageAnswers) = 1

\* the API answered call i with a body that holds choices, and the text of
\* its first choice (none, if there is no choice or no text) has no span
\* with a URL
ApiAnsweredNothing(i) ==
    LET answer == tasks[i].apiAnswer
    IN  /\ answer.status = "data"
        /\ answer.data.hasChoices
        /\ \/ answer.data.choices = <<>>
           \/ /\ answer.data.choices # <<>>
              /\ ~answer.data.choices[1].hasContent
           \/ /\ answer.data.choices # <<>>
              /\ answer.data.choices[1].hasContent
              /\ \A k \in 1..Len(answer.data.choices[1].content) :
                     answer.data.choices[1].content[k].url = <<>>

RequestsBounded ==
    /\ \A i \in Tasks : Len(tasks[i].requests) <= 2
    /\ top.kind # "rejected"
    /\ op = "searchAndFetch" =>
           /\ Len(pageRequests) <= limit
           /\ IsDone(1) /\ IsFulfilled(1) /\ EnvelopeOf(1).source = "none" =>
                  /\ pageRequests = <<>>
                  /\ fetchPc \in {"search", "done"}
                  /\ fetchPc = "done" =>
                         /\ top.kind = "fulfilled"
                         /\ top.value.searchResults = <<>>
                         /\ top.value.fetchedContent = <<>>

\* C20: provided every network request eventually succeeds or fails, every
\* call of searchWeb, searchWebMultiple and searchAndFetch eventually returns;
\* meanwhile a searchWeb call issues at most two search requests, and
\* searchAndFetch at most fetchCount page requests, none at all when the
\* search resolved with source 'none', in which case it returns
\* searchResults = [] and fetchedContent = [] without throwing.
C20_CallsReturn ==
    /\ []RequestsBounded
    /\ (top.kind = "pending") ~> (top.kind = "fulfilled")

\* searchAndFetch has returned empty arrays after both search requests failed
C20_Witness ==
    /\ op = "searchAndFetch"
    /\ top.kind = "fulfilled"
    /\ tasks[1].requests = <<"perplexity", "duckduckgo">>
    /\ EnvelopeOf(1).source = "none"
    /\ top.value.searchResults = <<>>
    /\ top.value.fetchedContent = <<>>
    /\ pageRequests = <<>>

====
